---- MODULE Spec2Model ----
(***************************************************************************)
(* A model of compliance_mvp: the rule functions of rules.py and the       *)
(* upload and settings handlers of app.py.                                 *)
(*                                                                         *)
(* Text (a CSV cell, a form field, a file name, a window such as "1H") is  *)
(* a sequence of one-character strings, so that lower(), strip(),          *)
(* replace(',', ''), int(), to_numeric and to_datetime are computed.       *)
(* Timestamps are minutes on one time axis and are written in the inputs   *)
(* as decimal numerals; amounts are whole numbers.                         *)
(***************************************************************************)
EXTENDS Integers, Sequences, FiniteSets, TLC

VARIABLES
    thresholds,  \* app.py: the process-wide thresholds dict
    session,     \* app.py: session['agent_summary'], a sequence of entries
    now,         \* the wall clock, in minutes
    file,        \* the upload a client holds and submits
    resp,        \* the response of the last request
    pass,        \* the evaluation pass of the last upload: what it read, its
                 \* DataFrame df column by column, and its summary
    ref,         \* an earlier successful evaluation pass, kept for comparison
    inflight,    \* the requests being served: where the upload's thread and
                 \* the settings POST's thread stand, and the POST's locals
    call         \* a direct call of a function of rules.py and its result

vars == <<thresholds, session, now, file, resp, pass, ref, inflight, call>>

appvars == <<thresholds, session, now, file, resp, pass, ref, inflight>>

-----------------------------------------------------------------------------
(* Bounds of the model. *)

\* rows of an uploaded dataset
MaxRows == 2
\* timestamps handed to compute_txns_last_window in a direct call
MaxTimes == 3
\* the direct calls' timestamps are 0, 30, ..., 30 * MaxSlot minutes
MaxSlot == 3
\* rows handed to aggregate_agent_risk in a direct call
MaxAggRows == 3
\* the clock advances in half days, MaxTicks times at most
MaxTicks == 2
\* the direct calls' counts and limits range over 0..MaxCount
MaxCount == 4

-----------------------------------------------------------------------------
(* Text. *)

UpperLetters ==
    <<"A","B","C","D","E","F","G","H","I","J","K","L","M",
      "N","O","P","Q","R","S","T","U","V","W","X","Y","Z">>

LowerLetters ==
    <<"a","b","c","d","e","f","g","h","i","j","k","l","m",
      "n","o","p","q","r","s","t","u","v","w","x","y","z">>

Digits == <<"0","1","2","3","4","5","6","7","8","9">>

LowerChar(c) ==
    IF \E i \in 1..26 : UpperLetters[i] = c
    THEN LowerLetters[CHOOSE i \in 1..26 : UpperLetters[i] = c]
    ELSE c

\* str.lower()
Lower(s) == [i \in 1..Len(s) |-> LowerChar(s[i])]

RECURSIVE LStrip(_)
LStrip(s) == IF s # <<>> /\ Head(s) = " " THEN LStrip(Tail(s)) ELSE s

RECURSIVE RStrip(_)
RStrip(s) ==
    IF s # <<>> /\ s[Len(s)] = " " THEN RStrip(SubSeq(s, 1, Len(s) - 1)) ELSE s

\* str.strip()
Strip(s) == RStrip(LStrip(s))

\* str.replace(',', '')
RECURSIVE RemoveCommas(_)
RemoveCommas(s) ==
    IF s = <<>> THEN <<>>
    ELSE IF Head(s) = "," THEN RemoveCommas(Tail(s))
    ELSE <<Head(s)>> \o RemoveCommas(Tail(s))

IsDigit(c) == \E i \in 1..10 : Digits[i] = c

DigitVal(c) == (CHOOSE i \in 1..10 : Digits[i] = c) - 1

IsDigits(s) == s # <<>> /\ \A i \in 1..Len(s) : IsDigit(s[i])

RECURSIVE NatOf(_)
NatOf(s) ==
    IF s = <<>> THEN 0
    ELSE NatOf(SubSeq(s, 1, Len(s) - 1)) * 10 + DigitVal(s[Len(s)])

\* str.endswith
EndsWith(s, suffix) ==
    /\ Len(s) >= Len(suffix)
    /\ SubSeq(s, Len(s) - Len(suffix) + 1, Len(s)) = suffix

\* The length of the longest prefix of s made of digits.
RECURSIVE DigitPrefixLen(_)
DigitPrefixLen(s) ==
    IF s # <<>> /\ IsDigit(Head(s)) THEN 1 + DigitPrefixLen(Tail(s)) ELSE 0

-----------------------------------------------------------------------------
(* Values of pandas. *)

\* NaT / NaN: the value errors='coerce' puts where parsing fails
NaT == -1

\* Python's None, for check_kyc_status's optional today
None == -2

DayMinutes == 1440

HalfDay == DayMinutes \div 2

\* Today without .date(): the current time
TodayNow == now

\* pd.to_datetime(datetime.today().date()): the current date, time of day cut
Today == (now \div DayMinutes) * DayMinutes

-----------------------------------------------------------------------------
(* Ordering of text, as Python orders str: by code point, shorter first     *)
(* when one is a prefix of the other.                                      *)

CodePoints == <<" ", ",">> \o Digits \o UpperLetters \o LowerLetters

CharCode(c) == CHOOSE i \in 1..Len(CodePoints) : CodePoints[i] = c

RECURSIVE TextLess(_, _)
TextLess(a, b) ==
    IF b = <<>> THEN FALSE
    ELSE IF a = <<>> THEN TRUE
    ELSE IF Head(a) # Head(b) THEN CharCode(Head(a)) < CharCode(Head(b))
    ELSE TextLess(Tail(a), Tail(b))

\* The texts of set S in ascending order.
RECURSIVE SortedTexts(_)
SortedTexts(S) ==
    IF S = {} THEN <<>>
    ELSE LET m == CHOOSE x \in S : \A y \in S \ {x} : TextLess(x, y)
         IN  <<m>> \o SortedTexts(S \ {m})

-----------------------------------------------------------------------------
(* rules.py *)

Complete == <<"c","o","m","p","l","e","t","e">>

\* check_kyc_status with the expiry test written `<=`
check_kyc_status_le(kyc_status, id_expiry, today) ==
    LET t == IF today = None THEN Today ELSE today
    IN  IF Lower(kyc_status) # Complete THEN "INCOMPLETE"
        ELSE IF id_expiry = NaT \/ id_expiry <= t THEN "EXPIRED"
        ELSE "OK"

check_kyc_status(kyc_status, id_expiry, today) ==
    LET t == IF today = None THEN Today ELSE today
    IN  IF Lower(kyc_status) # Complete THEN "INCOMPLETE"
        ELSE IF id_expiry = NaT \/ id_expiry < t THEN "EXPIRED"
        ELSE "OK"

flag_high_value(txn_amount, threshold) ==
    IF txn_amount > threshold THEN "ALERT" ELSE "OK"

\* The window of rolling(window), in minutes: an optional count and a unit,
\* "h" or "min". 0 stands for a window rolling() refuses with ValueError.
ParseWindow(window) ==
    LET k    == DigitPrefixLen(window)
        n    == IF k = 0 THEN 1 ELSE NatOf(SubSeq(window, 1, k))
        unit == SubSeq(window, k + 1, Len(window))
    IN  IF unit = <<"h">> THEN n * 60
        ELSE IF unit = <<"m","i","n">> THEN n
        ELSE 0

RECURSIVE Insert(_, _)
Insert(x, s) ==
    IF s = <<>> THEN <<x>>
    ELSE IF x < Head(s) THEN <<x>> \o s
    ELSE <<Head(s)>> \o Insert(x, Tail(s))

\* pd.Series(1, index=times).sort_index(): the index, ascending
RECURSIVE SortIndex(_)
SortIndex(times) ==
    IF times = <<>> THEN <<>>
    ELSE Insert(times[Len(times)], SortIndex(SubSeq(times, 1, Len(times) - 1)))

\* RollingCounts with the window closed on both sides (closed='both')
RollingCountsBoth(sorted, w) ==
    [i \in 1..Len(sorted) |->
        Cardinality({j \in 1..i : sorted[j] >= sorted[i] - w})]

\* s.rolling(window).sum(): at position i of the sorted index, the rows j <= i
\* whose time is later than sorted[i] - w (the window is closed on the right
\* and open on the left, and a row counts only the rows sorted before it).
RollingCounts(sorted, w) ==
    [i \in 1..Len(sorted) |->
        Cardinality({j \in 1..i : sorted[j] > sorted[i] - w})]

\* counts.get(ts, 0): the count at label ts, a number when the label occurs
\* once in the index and the Series of all its counts when it occurs more
\* than once.
CountsGet(sorted, counts, ts) ==
    LET pos == {i \in 1..Len(sorted) : sorted[i] = ts}
        lo  == CHOOSE i \in pos : \A j \in pos : i <= j
        hi  == CHOOSE i \in pos : \A j \in pos : i >= j
    IN  IF pos = {} THEN [series |-> FALSE, vals |-> <<0>>]
        ELSE IF Cardinality(pos) = 1
             THEN [series |-> FALSE, vals |-> <<counts[lo]>>]
        ELSE [series |-> TRUE, vals |-> SubSeq(counts, lo, hi)]

\* compute_txns_last_window without step 4: the counts in sorted order
compute_txns_last_window_sorted(txn_times, window) ==
    LET w      == ParseWindow(Lower(window))
        sorted == SortIndex(txn_times)
        counts == [i \in 1..Len(sorted) |->
                      Cardinality({j \in 1..i : sorted[j] > sorted[i] - w})]
    IN  IF w <= 0 THEN [raised |-> TRUE, val |-> <<>>]
        ELSE [raised |-> FALSE,
              val |-> [i \in 1..Len(txn_times) |->
                          [series |-> FALSE, vals |-> <<counts[i]>>]]]

\* txn_times holds timestamps (no NaT). The result is the outcome of the
\* call: raised, or the returned Series as val.
compute_txns_last_window(txn_times, window) ==
    LET times  == txn_times
        w      == ParseWindow(Lower(window))
        sorted == SortIndex(times)
        counts == RollingCounts(sorted, w)
    IN  IF w <= 0 THEN [raised |-> TRUE, val |-> <<>>]
        ELSE [raised |-> FALSE,
              val |-> [i \in 1..Len(times) |-> CountsGet(sorted, counts, times[i])]]

\* compute_frequency_flag with the comparison written `>`
compute_frequency_flag_strict(txns_last_window, limit) ==
    IF \E i \in 1..Len(txns_last_window) : txns_last_window[i].series
    THEN [raised |-> TRUE, val |-> <<>>]
    ELSE [raised |-> FALSE,
          val |-> [i \in 1..Len(txns_last_window) |->
                      IF txns_last_window[i].vals[1] > limit THEN "ALERT" ELSE "OK"]]

\* The lambda's `cnt >= limit` is a Series when cnt is one, and its truth
\* value raises ValueError.
compute_frequency_flag(txns_last_window, limit) ==
    IF \E i \in 1..Len(txns_last_window) : txns_last_window[i].series
    THEN [raised |-> TRUE, val |-> <<>>]
    ELSE [raised |-> FALSE,
          val |-> [i \in 1..Len(txns_last_window) |->
                      IF txns_last_window[i].vals[1] >= limit THEN "ALERT" ELSE "OK"]]

\* _agent_risk with the INCOMPLETE test made before the red-level test
agent_risk_yellow_first(rows, group) ==
    IF \E i \in group : rows[i].kyc_flag = "INCOMPLETE" THEN "YELLOW"
    ELSE IF \/ \E i \in group : rows[i].kyc_flag = "EXPIRED"
            \/ \E i \in group : rows[i].aml_flag = "ALERT"
            \/ \E i \in group : rows[i].frequency_flag = "ALERT"
    THEN "RED"
    ELSE "GREEN"

\* _agent_risk(group), group being the set of the positions of an agent's rows
agent_risk(rows, group) ==
    IF \/ \E i \in group : rows[i].kyc_flag = "EXPIRED"
       \/ \E i \in group : rows[i].aml_flag = "ALERT"
       \/ \E i \in group : rows[i].frequency_flag = "ALERT"
    THEN "RED"
    ELSE IF \E i \in group : rows[i].kyc_flag = "INCOMPLETE" THEN "YELLOW"
    ELSE "GREEN"

\* GroupKeys without the grouping: one key for each row
GroupKeysPerRow(rows) == [i \in 1..Len(rows) |-> rows[i].agent_id]

\* df2.groupby(level=0): the groups' keys, ascending
GroupKeys(rows) == SortedTexts({rows[i].agent_id : i \in 1..Len(rows)})

\* rows is a non-empty sequence of rows with the fields agent_id, kyc_flag,
\* aml_flag and frequency_flag.
aggregate_agent_risk(rows) ==
    LET keys == GroupKeys(rows)
    IN  [k \in 1..Len(keys) |->
            [agent_id    |-> keys[k],
             risk_status |-> agent_risk(rows,
                                 {i \in 1..Len(rows) : rows[i].agent_id = keys[k]})]]

-----------------------------------------------------------------------------
(* The state of the application when the process starts. *)

NoFile == [has_file |-> FALSE, filename |-> <<>>, columns |-> {}, rows |-> <<>>]

NoResp == [status |-> 0, body |-> "none", columns |-> <<>>]

\* No evaluation pass: the upload was rejected before the compliance logic.
NoPass ==
    [done |-> FALSE, at |-> 0,
     high_value |-> 0, frequency_window |-> <<>>, frequency_limit |-> 0,
     rows |-> <<>>, kyc_flag |-> <<>>, aml_flag |-> <<>>,
     txns_last_hour |-> <<>>, frequency_flag |-> <<>>, summary |-> <<>>]

NoRef == [set |-> FALSE, pass |-> NoPass]

NoCall == [fn |-> "none", done |-> FALSE]

\* No request is being served.
Idle ==
    [upload   |-> "idle",
     settings |-> "idle", hv |-> 0, fw |-> <<>>, fl |-> 0]

InitThresholds ==
    [high_value |-> 1000, frequency_window |-> <<"1","H">>, frequency_limit |-> 3]

\* The clock starts at midnight of day 1.
InitApp(f) ==
    /\ thresholds = InitThresholds
    /\ session = <<>>
    /\ now = DayMinutes
    /\ file = f
    /\ resp = NoResp
    /\ pass = NoPass
    /\ ref = NoRef
    /\ inflight = Idle

-----------------------------------------------------------------------------
(* Direct calls of the functions of rules.py, as tests/test_rules.py makes  *)
(* them: the arguments are drawn when the behaviour starts and one step     *)
(* runs the call.                                                          *)

SeqsUpTo(S, n) == UNION {[1..k -> S] : k \in 1..n}

KycTexts ==
    { Complete,
      <<"C","o","m","p","l","e","t","e">>,
      <<"C","O","M","P","L","E","T","E">>,
      <<"i","n","c","o","m","p","l","e","t","e">>,
      <<"P","e","n","d","i","n","g">> }

Dates == {k * HalfDay : k \in 0..(MaxTicks + 2)}

Slots == {30 * k : k \in 0..MaxSlot}

Windows == { <<"1","H">>, <<"3","0","m","i","n">>, <<"2","h">> }

AgentTexts == { <<"A">>, <<"B">> }

Scalar(n) == [series |-> FALSE, vals |-> <<n>>]

KycCalls ==
    [fn : {"check_kyc_status"}, kyc_status : KycTexts,
     id_expiry : Dates \cup {NaT}, today : Dates \cup {None},
     done : {FALSE}, ret : {""}]

HighValueCalls ==
    [fn : {"flag_high_value"},
     txn_amount : {0, 499, 500, 501, 999, 1000, 1001},
     threshold : {500, 1000},
     done : {FALSE}, ret : {""}]

WindowCalls ==
    [fn : {"compute_txns_last_window"}, txn_times : SeqsUpTo(Slots, MaxTimes),
     window : Windows,
     done : {FALSE}, ret : {[raised |-> FALSE, val |-> <<>>]}]

FlagCalls ==
    [fn : {"compute_frequency_flag"},
     txns_last_window : SeqsUpTo({Scalar(n) : n \in 0..MaxCount}, 2),
     limit : 1..MaxCount,
     done : {FALSE}, ret : {[raised |-> FALSE, val |-> <<>>]}]

FlagRows ==
    [agent_id : AgentTexts, kyc_flag : {"OK", "INCOMPLETE", "EXPIRED"},
     aml_flag : {"OK", "ALERT"}, frequency_flag : {"OK", "ALERT"}]

AggregateCalls ==
    [fn : {"aggregate_agent_risk"}, rows : SeqsUpTo(FlagRows, MaxAggRows),
     done : {FALSE}, ret : {<<>>}]

InitRules ==
    /\ InitApp(NoFile)
    /\ \/ call \in KycCalls
       \/ call \in HighValueCalls
       \/ call \in WindowCalls
       \/ call \in FlagCalls
       \/ call \in AggregateCalls

Return(v) == call' = [call EXCEPT !.ret = v, !.done = TRUE]

CallCheckKycStatus ==
    /\ call.fn = "check_kyc_status" /\ ~call.done
    /\ Return(check_kyc_status(call.kyc_status, call.id_expiry, call.today))
    /\ UNCHANGED appvars

CallFlagHighValue ==
    /\ call.fn = "flag_high_value" /\ ~call.done
    /\ Return(flag_high_value(call.txn_amount, call.threshold))
    /\ UNCHANGED appvars

CallComputeTxnsLastWindow ==
    /\ call.fn = "compute_txns_last_window" /\ ~call.done
    /\ Return(compute_txns_last_window(call.txn_times, call.window))
    /\ UNCHANGED appvars

CallComputeFrequencyFlag ==
    /\ call.fn = "compute_frequency_flag" /\ ~call.done
    /\ Return(compute_frequency_flag(call.txns_last_window, call.limit))
    /\ UNCHANGED appvars

CallAggregateAgentRisk ==
    /\ call.fn = "aggregate_agent_risk" /\ ~call.done
    /\ Return(aggregate_agent_risk(call.rows))
    /\ UNCHANGED appvars

NextRules ==
    \/ CallCheckKycStatus
    \/ CallFlagHighValue
    \/ CallComputeTxnsLastWindow
    \/ CallComputeFrequencyFlag
    \/ CallAggregateAgentRisk

SpecRules == InitRules /\ [][NextRules]_vars

-----------------------------------------------------------------------------
(* app.py: upload_file *)

REQUIRED_COLUMNS ==
    <<"agent_id", "agent_name", "kyc_status", "id_expiry", "txn_amount", "txn_time">>

\* The cells pd.read_csv reads as missing (NaN): the empty field and the
\* default na_values.
NaValues == { <<>>, <<"N","A">>, <<"N","a","N">> }

Cells(row) ==
    {row.agent_id, row.agent_name, row.kyc_status,
     row.id_expiry, row.txn_amount, row.txn_time}

\* pd.to_numeric(col.astype(str).str.replace(',', ''), errors='coerce')
ToNumeric(text) ==
    LET t == RemoveCommas(text) IN IF IsDigits(t) THEN NatOf(t) ELSE NaT

\* pd.to_datetime(col, errors='coerce')
ToDatetime(text) == IF IsDigits(text) THEN NatOf(text) ELSE NaT

\* The row after the three conversions.
Coerce(row) ==
    [row EXCEPT !.txn_amount = ToNumeric(row.txn_amount),
                !.txn_time   = ToDatetime(row.txn_time),
                !.id_expiry  = ToDatetime(row.id_expiry)]

SelectSeq3(a, b, c) ==
    (IF a THEN <<"txn_amount">> ELSE <<>>)
        \o (IF b THEN <<"txn_time">> ELSE <<>>)
        \o (IF c THEN <<"id_expiry">> ELSE <<>>)

\* invalid_columns that stops at the first column found invalid
InvalidColumnsFirst(rows) ==
    IF \E i \in 1..Len(rows) : rows[i].txn_amount = NaT THEN <<"txn_amount">>
    ELSE IF \E i \in 1..Len(rows) : rows[i].txn_time = NaT THEN <<"txn_time">>
    ELSE IF \E i \in 1..Len(rows) : rows[i].id_expiry = NaT THEN <<"id_expiry">>
    ELSE <<>>

\* invalid_columns, of the coerced rows
InvalidColumns(rows) ==
    SelectSeq3(\E i \in 1..Len(rows) : rows[i].txn_amount = NaT,
               \E i \in 1..Len(rows) : rows[i].txn_time = NaT,
               \E i \in 1..Len(rows) : rows[i].id_expiry = NaT)

MissingColumns(columns) ==
    SelectSeq(REQUIRED_COLUMNS, LAMBDA col : col \notin columns)

Rejected(status, body, columns) ==
    [resp   |-> [status |-> status, body |-> body, columns |-> columns],
     stored |-> FALSE, pass |-> NoPass]

\* The compliance logic on the coerced rows, and what upload_file answers.
Evaluate(rows) ==
    LET today == Today
        n     == Len(rows)
        kyc   == [i \in 1..n |->
                     check_kyc_status(rows[i].kyc_status, rows[i].id_expiry, today)]
        aml   == [i \in 1..n |->
                     flag_high_value(rows[i].txn_amount, thresholds.high_value)]
        txns  == compute_txns_last_window([i \in 1..n |-> rows[i].txn_time],
                                          thresholds.frequency_window)
        freq  == compute_frequency_flag(txns.val, thresholds.frequency_limit)
        flagged == [i \in 1..n |->
                     [agent_id |-> rows[i].agent_id, kyc_flag |-> kyc[i],
                      aml_flag |-> aml[i], frequency_flag |-> freq.val[i]]]
        begun == [NoPass EXCEPT !.at = now, !.rows = rows,
                                !.kyc_flag = kyc, !.aml_flag = aml,
                                !.high_value = thresholds.high_value,
                                !.frequency_window = thresholds.frequency_window]
        error == [status |-> 400, body |-> "Error reading and parsing file",
                  columns |-> <<>>]
    IN  IF txns.raised
        THEN [resp |-> error, stored |-> FALSE, pass |-> begun]
        ELSE IF freq.raised
        THEN [resp |-> error, stored |-> FALSE,
              pass |-> [begun EXCEPT !.txns_last_hour = txns.val,
                            !.frequency_limit = thresholds.frequency_limit]]
        ELSE [resp |-> [status |-> 302, body |-> "dashboard", columns |-> <<>>],
              stored |-> TRUE,
              pass |-> [begun EXCEPT !.txns_last_hour = txns.val,
                            !.frequency_limit = thresholds.frequency_limit,
                            !.frequency_flag = freq.val,
                            !.summary = aggregate_agent_risk(flagged),
                            !.done = TRUE]]

\* What upload_file does with the upload f.
UploadOutcome(f) ==
    LET coerced == [i \in 1..Len(f.rows) |-> Coerce(f.rows[i])]
    IN  IF ~f.has_file THEN Rejected(400, "No file part", <<>>)
        ELSE IF f.filename = <<>> THEN Rejected(400, "No selected file", <<>>)
        ELSE IF ~EndsWith(Lower(f.filename), <<".","c","s","v">>)
        THEN Rejected(400, "Invalid file type", <<>>)
        ELSE IF MissingColumns(f.columns) # <<>>
        THEN Rejected(400, "Missing required columns", MissingColumns(f.columns))
        ELSE IF \E i \in 1..Len(f.rows) : Cells(f.rows[i]) \cap NaValues # {}
        THEN Rejected(400, "CSV contains missing values", <<>>)
        ELSE IF InvalidColumns(coerced) # <<>>
        THEN Rejected(400, "Invalid data types in column(s)", InvalidColumns(coerced))
        ELSE Evaluate(coerced)

upload_file(f) ==
    LET o == UploadOutcome(f)
    IN  /\ resp' = o.resp
        /\ pass' = o.pass
        /\ session' = IF o.stored THEN o.pass.summary ELSE session
        /\ UNCHANGED <<thresholds, now, file, ref, inflight, call>>

-----------------------------------------------------------------------------
(* app.py: settings *)

\* int(text): surrounding blanks dropped, an optional sign, digits.
ParseInt(text) ==
    LET t    == Strip(text)
        neg  == t # <<>> /\ Head(t) = "-"
        body == IF t # <<>> /\ Head(t) \in {"-", "+"} THEN Tail(t) ELSE t
    IN  IF IsDigits(body)
        THEN [ok |-> TRUE, val |-> IF neg THEN 0 - NatOf(body) ELSE NatOf(body)]
        ELSE [ok |-> FALSE, val |-> 0]

\* Whether the POST of form raises inside the try block: a field is not in
\* the form, int() fails, or a threshold is not positive.
SettingsRaises(form) ==
    \/ ~form.high_value.has
    \/ ~ParseInt(form.high_value.text).ok
    \/ ~form.frequency_window.has
    \/ ~form.frequency_limit.has
    \/ ~ParseInt(form.frequency_limit.text).ok
    \/ ParseInt(form.high_value.text).val <= 0
    \/ ParseInt(form.frequency_limit.text).val <= 0

\* POST /settings
settings(form) ==
    /\ IF SettingsRaises(form)
       THEN /\ resp' = [status |-> 200, body |-> "Invalid input", columns |-> <<>>]
            /\ UNCHANGED thresholds
       ELSE /\ thresholds' =
                  [high_value       |-> ParseInt(form.high_value.text).val,
                   frequency_window |-> Strip(form.frequency_window.text),
                   frequency_limit  |-> ParseInt(form.frequency_limit.text).val]
            /\ resp' = [status |-> 302, body |-> "settings", columns |-> <<>>]
    /\ UNCHANGED <<session, now, file, pass, ref, inflight, call>>

\* Time passes.
Tick ==
    /\ now < DayMinutes + MaxTicks * HalfDay
    /\ now' = now + HalfDay
    /\ UNCHANGED <<thresholds, session, file, resp, pass, ref, inflight, call>>

-----------------------------------------------------------------------------
(* The requests the clients send. *)

\* The decimal numeral of n.
RECURSIVE Numeral(_)
Numeral(n) ==
    IF n < 10 THEN <<Digits[n + 1]>>
    ELSE Numeral(n \div 10) \o <<Digits[(n % 10) + 1]>>

AllColumns == {REQUIRED_COLUMNS[i] : i \in 1..Len(REQUIRED_COLUMNS)}

CsvFile(rows) ==
    [has_file |-> TRUE, filename |-> <<"a",".","C","S","V">>,
     columns |-> AllColumns, rows |-> rows]

\* A row with nothing wrong: KYC complete, an expiry far ahead, a small amount.
GoodRow(agent, expiry, time) ==
    [agent_id |-> agent, agent_name |-> <<"x">>,
     kyc_status |-> <<"C","o","m","p","l","e","t","e">>,
     id_expiry |-> expiry, txn_amount |-> <<"8","0","0">>, txn_time |-> time]

FarAhead == Numeral(9999)

\* Rows that differ in agent and time only.
FreqRows == {GoodRow(a, FarAhead, Numeral(30 * k)) : a \in AgentTexts, k \in 0..2}

\* Rows whose cells may be unparseable.
RawRows ==
    [agent_id : {<<"A">>}, agent_name : {<<"x">>},
     kyc_status : {Complete},
     id_expiry : {FarAhead, <<"s","o","o","n">>},
     txn_amount : {<<"1",",","2","0","0">>, <<"a","b","c">>},
     txn_time : {Numeral(0), <<"n","o","o","n">>}]

BadRow ==
    [agent_id |-> <<"A">>, agent_name |-> <<"x">>, kyc_status |-> Complete,
     id_expiry |-> FarAhead, txn_amount |-> <<"a","b","c">>, txn_time |-> Numeral(0)]

\* Uploads that do not reach the type checks.
OtherFiles ==
    { NoFile,
      [CsvFile(<<BadRow>>) EXCEPT !.filename = <<>>],
      [CsvFile(<<BadRow>>) EXCEPT !.filename = <<"a",".","t","x","t">>],
      [CsvFile(<<BadRow>>) EXCEPT !.columns = AllColumns \ {"txn_time"}],
      [CsvFile(<<BadRow>>) EXCEPT !.columns = AllColumns \ {"agent_name", "id_expiry"}],
      CsvFile(<<[BadRow EXCEPT !.agent_name = <<>>]>>),
      CsvFile(<<BadRow, [BadRow EXCEPT !.id_expiry = <<"N","A">>]>>) }

Files ==
    {CsvFile(rows) : rows \in SeqsUpTo(FreqRows, MaxRows) \cup SeqsUpTo(RawRows, MaxRows)}
        \cup OtherFiles

\* A file every client may also upload.
SampleFile == CsvFile(<<GoodRow(<<"B">>, FarAhead, Numeral(0))>>)

Field(text) == [has |-> TRUE, text |-> text]

Absent == [has |-> FALSE, text |-> <<>>]

Form(hv, fw, fl) == [high_value |-> hv, frequency_window |-> fw, frequency_limit |-> fl]

SettingsForms ==
    { Form(Field(<<"5","0","0">>), Field(<<" ","2","h"," ">>), Field(<<" ","2">>)),
      Form(Field(<<"5","0","0">>), Field(<<"x","y","z">>),     Field(<<"2">>)),
      Form(Field(<<"0">>),         Field(<<"2","h">>),         Field(<<"2">>)),
      Form(Field(<<"a","b","c">>), Field(<<"2","h">>),         Field(<<"2">>)),
      Form(Field(<<"5","0","0">>), Field(<<"2","h">>),         Field(<<"-","1">>)),
      Form(Absent,                 Field(<<"2","h">>),         Field(<<"2">>)) }

-----------------------------------------------------------------------------
(* The application: a client uploads its file or the sample file and the   *)
(* administrator posts settings.                                           *)

Init == (\E f \in Files : InitApp(f)) /\ call = NoCall

UploadFile == upload_file(file)

UploadSample == upload_file(SampleFile)

Settings == \E form \in SettingsForms : settings(form)

Next == UploadFile \/ UploadSample \/ Settings

Spec == Init /\ [][Next]_vars

-----------------------------------------------------------------------------
(* Re-running the evaluation: a client uploads one file again and again    *)
(* while settings change and time passes, and one successful pass is kept  *)
(* to compare the later ones with.                                         *)

\* An expiry in the morning of day 1: ahead on day 1, past on day 2.
Soon == Numeral(DayMinutes + HalfDay \div 2)

RerunChoices == [agent : AgentTexts, expiry : {Soon, FarAhead}]

RerunFiles ==
    {CsvFile([i \in 1..Len(c) |->
                 GoodRow(c[i].agent, c[i].expiry, Numeral(30 * (i - 1)))]) :
        c \in SeqsUpTo(RerunChoices, MaxRows)}

InitRerun == (\E f \in RerunFiles : InitApp(f)) /\ call = NoCall

KeepRef ==
    /\ ~ref.set
    /\ pass.done
    /\ ref' = [set |-> TRUE, pass |-> pass]
    /\ UNCHANGED <<thresholds, session, now, file, resp, pass, inflight, call>>

NextRerun == UploadFile \/ Settings \/ Tick \/ KeepRef

SpecRerun == InitRerun /\ [][NextRerun]_vars

-----------------------------------------------------------------------------
(* Requests served at the same time.  app.run serves each request on its   *)
(* own thread and nothing guards the thresholds dict, so the thread of an  *)
(* upload and the thread of a settings POST take turns between any two of  *)
(* their accesses to it.  The upload reads thresholds['high_value'] once   *)
(* for every row, then thresholds['frequency_window'], then                *)
(* thresholds['frequency_limit']; the POST assigns the three keys one      *)
(* after the other.  One upload and one POST are in flight at most.        *)

\* thresholds['high_value'] read once, with the first row, and kept
ReadHighValueOnce ==
    IF pass.aml_flag = <<>> THEN thresholds.high_value ELSE pass.high_value

\* thresholds['high_value'], as the lambda of the apply reads it
ReadHighValue == thresholds.high_value

\* upload_file up to and with the KYC check: the checks of the file, the
\* conversions, and kyc_flag, none of which reads thresholds.
BeginUpload ==
    /\ inflight.upload = "idle"
    /\ LET o == UploadOutcome(file)
       IN  IF o.pass = NoPass
           THEN /\ resp' = o.resp
                /\ pass' = NoPass
                /\ UNCHANGED inflight
           ELSE /\ pass' = [NoPass EXCEPT !.at = now, !.rows = o.pass.rows,
                                          !.kyc_flag = o.pass.kyc_flag]
                /\ inflight' = [inflight EXCEPT
                       !.upload = IF o.pass.rows = <<>> THEN "window" ELSE "aml"]
                /\ UNCHANGED resp
    /\ UNCHANGED <<thresholds, session, now, file, ref, call>>

\* The apply of the AML rule to the next row.
AmlRow ==
    /\ inflight.upload = "aml"
    /\ LET i  == Len(pass.aml_flag) + 1
           hv == ReadHighValue
       IN  /\ pass' = [pass EXCEPT
                  !.high_value = hv,
                  !.aml_flag = Append(@, flag_high_value(pass.rows[i].txn_amount, hv))]
           /\ inflight' = [inflight EXCEPT
                  !.upload = IF i = Len(pass.rows) THEN "window" ELSE "aml"]
    /\ UNCHANGED <<thresholds, session, now, file, resp, ref, call>>

\* txns_last_hour, from the window read now.
WindowStep ==
    /\ inflight.upload = "window"
    /\ LET fw   == thresholds.frequency_window
           txns == compute_txns_last_window(
                       [i \in 1..Len(pass.rows) |-> pass.rows[i].txn_time], fw)
       IN  IF txns.raised
           THEN /\ pass' = [pass EXCEPT !.frequency_window = fw]
                /\ resp' = [status |-> 400, body |-> "Error reading and parsing file",
                            columns |-> <<>>]
                /\ inflight' = [inflight EXCEPT !.upload = "idle"]
           ELSE /\ pass' = [pass EXCEPT !.frequency_window = fw,
                                        !.txns_last_hour = txns.val]
                /\ inflight' = [inflight EXCEPT !.upload = "limit"]
                /\ UNCHANGED resp
    /\ UNCHANGED <<thresholds, session, now, file, ref, call>>

\* frequency_flag, from the limit read now, then the summary and the answer.
LimitStep ==
    /\ inflight.upload = "limit"
    /\ LET fl   == thresholds.frequency_limit
           freq == compute_frequency_flag(pass.txns_last_hour, fl)
           flagged == [i \in 1..Len(pass.rows) |->
                         [agent_id |-> pass.rows[i].agent_id,
                          kyc_flag |-> pass.kyc_flag[i],
                          aml_flag |-> pass.aml_flag[i],
                          frequency_flag |-> freq.val[i]]]
       IN  IF freq.raised
           THEN /\ pass' = [pass EXCEPT !.frequency_limit = fl]
                /\ resp' = [status |-> 400, body |-> "Error reading and parsing file",
                            columns |-> <<>>]
                /\ UNCHANGED session
           ELSE /\ pass' = [pass EXCEPT !.frequency_limit = fl,
                                        !.frequency_flag = freq.val,
                                        !.summary = aggregate_agent_risk(flagged),
                                        !.done = TRUE]
                /\ resp' = [status |-> 302, body |-> "dashboard", columns |-> <<>>]
                /\ session' = aggregate_agent_risk(flagged)
    /\ inflight' = [inflight EXCEPT !.upload = "idle"]
    /\ UNCHANGED <<thresholds, now, file, ref, call>>

\* POST /settings up to the assignments: the three fields parsed into the
\* locals hv, fw and fl, and the check that hv and fl are positive.
BeginSettings ==
    /\ inflight.settings = "idle"
    /\ \E form \in SettingsForms :
          IF SettingsRaises(form)
          THEN /\ resp' = [status |-> 200, body |-> "Invalid input", columns |-> <<>>]
               /\ UNCHANGED inflight
          ELSE /\ inflight' = [inflight EXCEPT
                      !.settings = "high_value",
                      !.hv = ParseInt(form.high_value.text).val,
                      !.fw = Strip(form.frequency_window.text),
                      !.fl = ParseInt(form.frequency_limit.text).val]
               /\ UNCHANGED resp
    /\ UNCHANGED <<thresholds, session, now, file, pass, ref, call>>

\* thresholds['high_value'] = hv
WriteHighValue ==
    /\ inflight.settings = "high_value"
    /\ thresholds' = [thresholds EXCEPT !.high_value = inflight.hv]
    /\ inflight' = [inflight EXCEPT !.settings = "frequency_window"]
    /\ UNCHANGED <<session, now, file, resp, pass, ref, call>>

\* thresholds['frequency_window'] = fw
WriteFrequencyWindow ==
    /\ inflight.settings = "frequency_window"
    /\ thresholds' = [thresholds EXCEPT !.frequency_window = inflight.fw]
    /\ inflight' = [inflight EXCEPT !.settings = "frequency_limit"]
    /\ UNCHANGED <<session, now, file, resp, pass, ref, call>>

\* thresholds['frequency_limit'] = fl, and the redirect
WriteFrequencyLimit ==
    /\ inflight.settings = "frequency_limit"
    /\ thresholds' = [thresholds EXCEPT !.frequency_limit = inflight.fl]
    /\ inflight' = [Idle EXCEPT !.upload = inflight.upload]
    /\ resp' = [status |-> 302, body |-> "settings", columns |-> <<>>]
    /\ UNCHANGED <<session, now, file, pass, ref, call>>

\* Rows of one agent with nothing wrong, at one of two times.
RaceRows == {GoodRow(<<"A">>, FarAhead, Numeral(30 * k)) : k \in 0..1}

\* The uploads of the clients, their rows in any order of time.
RaceFiles == {CsvFile(rows) : rows \in SeqsUpTo(RaceRows, MaxRows)}

InitRace == (\E f \in RaceFiles : InitApp(f)) /\ call = NoCall

NextRace ==
    \/ BeginUpload
    \/ AmlRow
    \/ WindowStep
    \/ LimitStep
    \/ BeginSettings
    \/ WriteHighValue
    \/ WriteFrequencyWindow
    \/ WriteFrequencyLimit

SpecRace == InitRace /\ [][NextRace]_vars

-----------------------------------------------------------------------------
(* Properties of the functions of rules.py, over the direct calls.         *)

Returned(fn) == call.fn = fn /\ call.done

\* C5: check_kyc_status returns INCOMPLETE whenever kyc_status lower-cased
\* differs from "complete", whatever id_expiry is (NaT included); otherwise
\* EXPIRED iff id_expiry is NaT or strictly earlier than today; otherwise OK.
C5_KycClassification ==
    Returned("check_kyc_status") =>
        LET t == IF call.today = None THEN Today ELSE call.today
        IN  IF Lower(call.kyc_status) # Complete
            THEN call.ret = "INCOMPLETE"
            ELSE /\ call.ret \in {"EXPIRED", "OK"}
                 /\ call.ret = "EXPIRED" <=>
                        (call.id_expiry = NaT \/ call.id_expiry < t)

\* A complete KYC whose id_expiry is today itself was classified OK.
C5_Witness ==
    /\ Returned("check_kyc_status")
    /\ call.kyc_status = <<"C","o","m","p","l","e","t","e">>
    /\ call.today # None
    /\ call.id_expiry = call.today
    /\ call.ret = "OK"

\* C9: flag_high_value returns ALERT iff txn_amount > threshold (equality is
\* OK); compute_frequency_flag returns ALERT for a row iff its count >= limit
\* (equality is ALERT).
C9_ThresholdStrictness ==
    /\ Returned("flag_high_value") =>
           /\ call.ret \in {"ALERT", "OK"}
           /\ call.ret = "ALERT" <=> call.txn_amount > call.threshold
    /\ Returned("compute_frequency_flag") =>
           /\ ~call.ret.raised
           /\ Len(call.ret.val) = Len(call.txns_last_window)
           /\ \A i \in 1..Len(call.txns_last_window) :
                  /\ call.ret.val[i] \in {"ALERT", "OK"}
                  /\ call.ret.val[i] = "ALERT" <=>
                         call.txns_last_window[i].vals[1] >= call.limit

\* A row whose count equals the limit was flagged ALERT.
C9_Witness ==
    /\ Returned("compute_frequency_flag")
    /\ \E i \in 1..Len(call.txns_last_window) :
           /\ call.txns_last_window[i].vals[1] = call.limit
           /\ call.ret.val[i] = "ALERT"

RowsOf(a) == {i \in 1..Len(call.rows) : call.rows[i].agent_id = a}

RedRow(r) ==
    r.kyc_flag = "EXPIRED" \/ r.aml_flag = "ALERT" \/ r.frequency_flag = "ALERT"

\* C3: every agent of the input has risk_status RED if one of its rows has
\* kyc_flag EXPIRED or aml_flag ALERT or frequency_flag ALERT, else YELLOW if
\* one of its rows has kyc_flag INCOMPLETE, else GREEN.
C3_RiskPrecedence ==
    Returned("aggregate_agent_risk") =>
        \A i \in 1..Len(call.rows) :
            LET a == call.rows[i].agent_id
            IN  \E k \in 1..Len(call.ret) :
                    /\ call.ret[k].agent_id = a
                    /\ call.ret[k].risk_status =
                         IF \E j \in RowsOf(a) : RedRow(call.rows[j]) THEN "RED"
                         ELSE IF \E j \in RowsOf(a) :
                                     call.rows[j].kyc_flag = "INCOMPLETE"
                              THEN "YELLOW"
                         ELSE "GREEN"

\* An agent with a row that is all OK, a row with INCOMPLETE and a red-level
\* row came out RED, another agent being in the input too.
C3_Witness ==
    /\ Returned("aggregate_agent_risk")
    /\ \E a \in AgentTexts :
           /\ \E j \in RowsOf(a) : RedRow(call.rows[j])
           /\ \E j \in RowsOf(a) :
                  ~RedRow(call.rows[j]) /\ call.rows[j].kyc_flag = "INCOMPLETE"
           /\ \E j \in 1..Len(call.rows) : call.rows[j].agent_id # a
           /\ \E k \in 1..Len(call.ret) :
                  call.ret[k].agent_id = a /\ call.ret[k].risk_status = "RED"

\* C10: the summary holds one entry for each agent_id of the input, none for
\* any other id, and no agent_id twice.
C10_OneEntryPerAgent ==
    Returned("aggregate_agent_risk") =>
        /\ {call.ret[k].agent_id : k \in 1..Len(call.ret)} =
               {call.rows[i].agent_id : i \in 1..Len(call.rows)}
        /\ \A k1, k2 \in 1..Len(call.ret) :
               call.ret[k1].agent_id = call.ret[k2].agent_id => k1 = k2

\* An input in which an agent has two rows and another agent one gave a
\* summary of two entries.
C10_Witness ==
    /\ Returned("aggregate_agent_risk")
    /\ Len(call.rows) = 3
    /\ Cardinality({call.rows[i].agent_id : i \in 1..Len(call.rows)}) = 2
    /\ Len(call.ret) = 2

\* The window of the direct call, in minutes.
CallWindow == ParseWindow(Lower(call.window))

Distinct(times) ==
    \A i, j \in 1..Len(times) : times[i] = times[j] => i = j

C6_RowOrderPreserved ==
    (Returned("compute_txns_last_window") /\ ~call.ret.raised) =>
        /\ Len(call.ret.val) = Len(call.txn_times)
        /\ \A p \in Permutations(1..Len(call.txn_times)) :
               LET permuted == [i \in 1..Len(call.txn_times) |-> call.txn_times[p[i]]]
                   again    == compute_txns_last_window(permuted, call.window)
               IN  /\ ~again.raised
                   /\ again.val = [i \in 1..Len(call.txn_times) |-> call.ret.val[p[i]]]

\* An input that is not in time order, whose first record counts two and
\* whose second, the earlier one, counts one.
C6_Witness ==
    /\ Returned("compute_txns_last_window")
    /\ Len(call.txn_times) >= 2
    /\ call.txn_times[1] > call.txn_times[2]
    /\ call.ret.val[1] = Scalar(2)
    /\ call.ret.val[2] = Scalar(1)

-----------------------------------------------------------------------------
(* Properties of the application.                                          *)

\* The window an evaluation pass read, in minutes.
PassWindow == ParseWindow(Lower(pass.frequency_window))

\* C1: in an evaluation, the txns_in_window value of a record counts only the
\* records of the same agent_id: it is the number of that agent's records in
\* the record's trailing window, whatever the other agents' records are.
C1_PerAgentCount ==
    pass.done =>
        \A i \in 1..Len(pass.rows) :
            pass.txns_last_hour[i] =
                Scalar(Cardinality({j \in 1..Len(pass.rows) :
                    /\ pass.rows[j].agent_id = pass.rows[i].agent_id
                    /\ pass.rows[i].txn_time - PassWindow < pass.rows[j].txn_time
                    /\ pass.rows[j].txn_time <= pass.rows[i].txn_time}))

\* An update the claim calls invalid: a threshold that is missing, not a
\* number or not positive, or a window that cannot be parsed.
InvalidUpdate(form) ==
    \/ ~form.high_value.has \/ ~form.frequency_limit.has \/ ~form.frequency_window.has
    \/ ~ParseInt(form.high_value.text).ok
    \/ ~ParseInt(form.frequency_limit.text).ok
    \/ ParseInt(form.high_value.text).val <= 0
    \/ ParseInt(form.frequency_limit.text).val <= 0
    \/ ParseWindow(Lower(Strip(form.frequency_window.text))) <= 0

\* C4: every invalid update of the thresholds is rejected, and a rejected
\* update changes none of the three fields.
C4_InvalidUpdateRejected ==
    [][\A form \in SettingsForms :
          (settings(form) /\ InvalidUpdate(form)) =>
              /\ resp'.body = "Invalid input"
              /\ thresholds' = thresholds]_vars

\* A value that is there and cannot be parsed.
UnparseableNumber(text) == text \notin NaValues /\ ToNumeric(text) = NaT

UnparseableTime(text) == text \notin NaValues /\ ToDatetime(text) = NaT

\* The columns of f that hold at least one unparseable value.
UnparseableColumns(f) ==
    SelectSeq3(\E i \in 1..Len(f.rows) : UnparseableNumber(f.rows[i].txn_amount),
               \E i \in 1..Len(f.rows) : UnparseableTime(f.rows[i].txn_time),
               \E i \in 1..Len(f.rows) : UnparseableTime(f.rows[i].id_expiry))

\* The upload is rejected with the type error naming exactly `columns`, no
\* summary is stored and no row is evaluated.
RejectedForTypes(columns) ==
    /\ resp' = [status |-> 400, body |-> "Invalid data types in column(s)",
                columns |-> columns]
    /\ session' = session
    /\ pass' = NoPass

\* C7 as stated: every upload with an unparseable value of txn_amount,
\* txn_time or id_expiry is rejected with the error that names exactly the
\* columns holding one, and nothing is evaluated or stored.
C7_TypeErrorNamesColumns ==
    [][(UploadFile /\ UnparseableColumns(file) # <<>>) =>
           RejectedForTypes(UnparseableColumns(file))]_vars

\* The upload reaches the type checks: it is a CSV file that has every
\* required column and no missing value.
ReachesTypeChecks(f) ==
    /\ f.has_file
    /\ EndsWith(Lower(f.filename), <<".","c","s","v">>)
    /\ AllColumns \subseteq f.columns
    /\ \A i \in 1..Len(f.rows) : Cells(f.rows[i]) \cap NaValues = {}

\* C7 amended: every upload of a CSV file with all the required columns and
\* no missing value that has an unparseable value of txn_amount, txn_time or
\* id_expiry is rejected with the error that names exactly the columns
\* holding one, all together, and nothing is evaluated or stored.
C7_TypeErrorAfterSchemaChecks ==
    [][(UploadFile /\ ReachesTypeChecks(file) /\ UnparseableColumns(file) # <<>>) =>
           RejectedForTypes(UnparseableColumns(file))]_vars

\* An upload was rejected for all three columns at once while the summary of
\* an earlier upload stayed in the session.
C7_Witness ==
    /\ resp.body = "Invalid data types in column(s)"
    /\ resp.columns = <<"txn_amount", "txn_time", "id_expiry">>
    /\ UnparseableColumns(file) = resp.columns
    /\ Len(file.rows) = 2
    /\ session # <<>>
    /\ pass = NoPass

SameInputs(p, q) ==
    /\ p.rows = q.rows
    /\ p.high_value = q.high_value
    /\ p.frequency_window = q.frequency_window
    /\ p.frequency_limit = q.frequency_limit

\* C8 as stated: two evaluations of the same dataset under the same
\* thresholds give the same summary, whenever they run.
C8_SameSummaryWhenever ==
    (ref.set /\ pass.done /\ SameInputs(ref.pass, pass)) =>
        pass.summary = ref.pass.summary

\* C8 amended: two evaluations of the same dataset under the same thresholds
\* that run on the same calendar date give the same summary.
C8_SameSummarySameDate ==
    (/\ ref.set /\ pass.done /\ SameInputs(ref.pass, pass)
     /\ ref.pass.at \div DayMinutes = pass.at \div DayMinutes) =>
        pass.summary = ref.pass.summary

\* Two evaluations of a dataset of two agents, one with an expiry later that
\* day, at different times of one day under the same thresholds.
C8_Witness ==
    /\ ref.set /\ pass.done /\ SameInputs(ref.pass, pass)
    /\ ref.pass.at \div DayMinutes = pass.at \div DayMinutes
    /\ ref.pass.at < pass.at
    /\ \E i \in 1..Len(pass.rows) :
           /\ ref.pass.at < pass.rows[i].id_expiry
           /\ pass.rows[i].id_expiry < pass.at
    /\ Len(pass.summary) = 2
    /\ pass.summary = ref.pass.summary

-----------------------------------------------------------------------------
(* Properties of an evaluation that runs while settings are posted.        *)

\* The thresholds an evaluation pass used, as one record.
Used(p) ==
    [high_value |-> p.high_value, frequency_window |-> p.frequency_window,
     frequency_limit |-> p.frequency_limit]

\* The configurations: the one the process starts with and the ones the
\* administrator's accepted forms ask for.
Configurations ==
    {InitThresholds} \cup
    {[high_value       |-> ParseInt(form.high_value.text).val,
      frequency_window |-> Strip(form.frequency_window.text),
      frequency_limit  |-> ParseInt(form.frequency_limit.text).val] :
        form \in {g \in SettingsForms : ~SettingsRaises(g)}}

\* C11: nothing locks or snapshots thresholds: every read an evaluation
\* makes (high_value for each row, then frequency_window, then
\* frequency_limit) takes the value thresholds holds at that very step,
\* whatever a settings update in flight has or has not written yet, so
\* one evaluation can use values of different configurations.
C11_ReadsSeeCurrentThresholds ==
    [][/\ AmlRow => pass'.high_value = thresholds.high_value
       /\ WindowStep => pass'.frequency_window = thresholds.frequency_window
       /\ LimitStep => pass'.frequency_limit = thresholds.frequency_limit]_vars

\* An evaluation has finished while a settings update has written two of
\* its three fields: it flagged AML with the old high_value, counted with
\* the new frequency_window and compared with the old frequency_limit,
\* which is no configuration at all.
C11_Witness ==
    /\ pass.done
    /\ inflight.settings = "frequency_limit"
    /\ Used(pass) \notin Configurations
    /\ thresholds \notin Configurations
    /\ pass.high_value = InitThresholds.high_value
    /\ pass.high_value # thresholds.high_value
    /\ pass.frequency_window = inflight.fw
    /\ pass.frequency_window # InitThresholds.frequency_window
    /\ pass.frequency_limit = InitThresholds.frequency_limit

====
